---------------------------- MODULE Spec2Model ----------------------------
(***************************************************************************)
(* Model of the Signal Recovery DSP7265 plugins:                           *)
(*   DAQ_Move_Lockin_DSP7265      (actuator, daq_move_Lockin_DSP7265.py)   *)
(*   DAQ_0DViewer_Lockin_DSP7265  (viewer, daq_0Dviewer_Lockin_DSP7265.py) *)
(*                                                                         *)
(* Four specifications share the module:                                   *)
(*   Spec         initialisation / close life cycle of a group of plugin   *)
(*                instances sharing controllers (master / slave)           *)
(*   SpecMove     move_abs / move_rel / move_home of one Ready actuator    *)
(*   SpecSettings commit_settings of one Ready actuator                    *)
(*   SpecChannels ChannelGroup.addNew / removal of channel groups          *)
(***************************************************************************)
EXTENDS Integers, Sequences, FiniteSets, TLC

VARIABLES
    \* ---- life cycle (Spec) ----
    plugin,         \* "move" or "viewer": the plugin class of the instances
    multi_status,   \* instance -> "Master" | "Slave" (role setting)
    ismultiaxes,    \* instance -> BOOLEAN (actuator setting 'ismultiaxes')
    controller,     \* instance -> self.controller (None or a connection)
    status,         \* instance -> self.status (info, controller, initialized)
    id_setting,     \* instance -> read-only setting 'info' (move) / 'id' (viewer)
    raised,         \* instance -> the last call on it raised to the host
    closes,         \* instance -> close() calls made on it so far
    shutdowns,      \* connection -> shutdown() requests it has received
    nAdapter,       \* adapter constructor calls made so far
    nDSP,           \* DSP7265 objects constructed so far (connection ids 1..nDSP)
    \* ---- moves (SpecMove) ----
    frequency,          \* the device's frequency attribute
    target_frequency,   \* self.target_frequency (Unset until first assigned)
    current_frequency,  \* self.current_frequency (Unset until first assigned)
    is_bounds,          \* setting bounds/is_bounds
    use_scaling,        \* setting scaling/use_scaling
    scaling,            \* setting scaling/scaling
    offset,             \* setting scaling/offset
    move_raised,        \* the last move call raised to the host
    \* ---- settings (SpecSettings) ----
    imode,              \* setting 'imode' (index into DSP7265.IMODES)
    sensitivity,        \* setting 'sensitivity' (a label)
    sens_limits,        \* limits of setting 'sensitivity' (a sequence of labels)
    coupling,           \* setting 'coupling'
    dev_imode,          \* controller.imode as last written
    dev_sensitivity,    \* controller.sensitivity as last written
    dev_coupling,       \* controller.coupling as last written
    commit_raised,      \* the last commit_settings call raised to the host
    \* ---- channel groups (SpecChannels) ----
    children,           \* names of the existing channel groups (digit strings)
    add_raised          \* the last addNew call raised

lifeVars == <<plugin, multi_status, ismultiaxes, controller, status, id_setting,
              raised, closes, shutdowns, nAdapter, nDSP>>
moveVars == <<frequency, target_frequency, current_frequency, is_bounds,
              use_scaling, scaling, offset, move_raised>>
settingVars == <<imode, sensitivity, sens_limits, coupling, dev_imode,
                 dev_sensitivity, dev_coupling, commit_raised>>
channelVars == <<children, add_raised>>
vars == <<lifeVars, moveVars, settingVars, channelVars>>

(***************************************************************************)
(* Bounds of the model                                                     *)
(***************************************************************************)
MaxConn == 2        \* adapter constructor calls explored
MaxClose == 2       \* close() calls explored per instance
Insts == {"i1", "i2"}         \* plugin instances of one host session

(***************************************************************************)
(* Values                                                                  *)
(***************************************************************************)
\* self.controller = None (ini_attributes); connections are numbered 1..nDSP
None == 0
Conns == 1 .. MaxConn

\* strings held by status.info and by the identification setting
EmptyStr == [kind |-> "str", of |-> 0]
ErrNoController == [kind |-> "error", of |-> 1]   \* 'No controller has been defined externally...'
ErrAdapter == [kind |-> "error", of |-> 2]        \* the adapter constructor raised
ErrId == [kind |-> "error", of |-> 3]             \* the query behind controller.id raised
IsError(s) == s.kind = "error"

\* controller.id: the identification string the device behind connection c returns
device_id(c) == [kind |-> "id", of |-> c]

(***************************************************************************)
(* Initialisation: ini_stage (actuator) and ini_detector (viewer)          *)
(***************************************************************************)
\* self.status.update(edict(info="", controller=None, initialized=False))
status_reset_keeps_controller(old) == [info |-> EmptyStr, controller |-> old.controller, initialized |-> FALSE]
status_reset(old) == [info |-> EmptyStr, controller |-> None, initialized |-> FALSE]

\* except Exception as e: status.info = getLineInfo() + str(e); status.initialized = False
init_failed(st, msg) == [st EXCEPT !.info = msg, !.initialized = FALSE]

\* the actuator's test for the Slave branch: ismultiaxes and multi_status == "Slave"
move_is_slave_inverted(i) == ismultiaxes[i] /\ multi_status[i] # "Slave"
move_is_slave(i) == ismultiaxes[i] /\ multi_status[i] = "Slave"

\* the viewer's test for the Slave branch: controller_status == "Slave"
viewer_is_slave(i) == multi_status[i] = "Slave"

\* The part of initialisation both plugins share, in the order of the code:
\*   Slave branch:  controller None -> raise; else self.controller = controller
\*   Master branch: adapter = ADAPTERS[..](address) (may raise);
\*                  self.controller = DSP7265(adapter)
\*   then self.status.info = self.controller.id (may raise)
\* slave: the Slave branch is taken; ctrl: the controller argument;
\* adapterOk / idOk: whether the adapter constructor / the id query succeed.
\* Result: the new self.controller, whether the try block reached the end,
\* the error message otherwise, and the adapters / DSP7265 objects constructed.
open_controller(i, slave, ctrl, adapterOk, idOk) ==
    IF slave
    THEN IF ctrl = None
         THEN [ctl |-> controller[i], ok |-> FALSE, msg |-> ErrNoController, adapters |-> 0, dsps |-> 0]
         ELSE [ctl |-> ctrl, ok |-> idOk, msg |-> ErrId, adapters |-> 0, dsps |-> 0]
    ELSE IF ~adapterOk
         THEN [ctl |-> controller[i], ok |-> FALSE, msg |-> ErrAdapter, adapters |-> 1, dsps |-> 0]
         ELSE [ctl |-> nDSP + 1, ok |-> idOk, msg |-> ErrId, adapters |-> 1, dsps |-> 1]

\* DAQ_Move_Lockin_DSP7265.ini_stage(controller)
ini_stage(i, ctrl, adapterOk, idOk) ==
    /\ plugin = "move"
    /\ LET r == open_controller(i, move_is_slave(i), ctrl, adapterOk, idOk)
           st0 == status_reset(status[i])
       IN /\ nAdapter + r.adapters <= MaxConn
          /\ nAdapter' = nAdapter + r.adapters
          /\ nDSP' = nDSP + r.dsps
          /\ controller' = [controller EXCEPT ![i] = r.ctl]
          /\ IF r.ok
             THEN \* info = controller.id; settings 'info' = info;
                  \* status.controller = self.controller; initialized = True
                  /\ status' = [status EXCEPT ![i] =
                        [info |-> device_id(r.ctl), controller |-> r.ctl, initialized |-> TRUE]]
                  /\ id_setting' = [id_setting EXCEPT ![i] = device_id(r.ctl)]
             ELSE /\ status' = [status EXCEPT ![i] = init_failed(st0, r.msg)]
                  /\ UNCHANGED id_setting
    /\ raised' = [raised EXCEPT ![i] = FALSE]
    /\ UNCHANGED <<plugin, multi_status, ismultiaxes, shutdowns, closes>>
    /\ UNCHANGED <<moveVars, settingVars, channelVars>>

\* DAQ_0DViewer_Lockin_DSP7265.ini_detector(controller)
ini_detector(i, ctrl, adapterOk, idOk) ==
    /\ plugin = "viewer"
    /\ LET r == open_controller(i, viewer_is_slave(i), ctrl, adapterOk, idOk)
           st0 == status_reset(status[i])
       IN /\ nAdapter + r.adapters <= MaxConn
          /\ nAdapter' = nAdapter + r.adapters
          /\ nDSP' = nDSP + r.dsps
          /\ controller' = [controller EXCEPT ![i] = r.ctl]
          /\ IF r.ok
             THEN \* info = controller.id; status.controller = controller (the
                  \* ARGUMENT, not self.controller); initialized = True
                  status' = [status EXCEPT ![i] =
                        [info |-> device_id(r.ctl), controller |-> ctrl, initialized |-> TRUE]]
             ELSE status' = [status EXCEPT ![i] = init_failed(st0, r.msg)]
    /\ raised' = [raised EXCEPT ![i] = FALSE]
    /\ UNCHANGED <<plugin, multi_status, ismultiaxes, shutdowns, closes, id_setting>>
    /\ UNCHANGED <<moveVars, settingVars, channelVars>>

(***************************************************************************)
(* Close                                                                   *)
(***************************************************************************)
\* DAQ_Move_Lockin_DSP7265.close: self.controller.shutdown()
\* (AttributeError when self.controller is None)
close_move(i) ==
    /\ plugin = "move"
    /\ closes[i] < MaxClose
    /\ closes' = [closes EXCEPT ![i] = @ + 1]
    /\ IF controller[i] = None
       THEN /\ raised' = [raised EXCEPT ![i] = TRUE]
            /\ UNCHANGED shutdowns
       ELSE /\ raised' = [raised EXCEPT ![i] = FALSE]
            /\ shutdowns' = [shutdowns EXCEPT ![controller[i]] = @ + 1]
    /\ UNCHANGED <<plugin, multi_status, ismultiaxes, controller, status,
                   id_setting, nAdapter, nDSP>>
    /\ UNCHANGED <<moveVars, settingVars, channelVars>>

\* DAQ_0DViewer_Lockin_DSP7265.close: pass
close_viewer(i) ==
    /\ plugin = "viewer"
    /\ closes[i] < MaxClose
    /\ closes' = [closes EXCEPT ![i] = @ + 1]
    /\ raised' = [raised EXCEPT ![i] = FALSE]
    /\ UNCHANGED <<plugin, multi_status, ismultiaxes, controller, status,
                   id_setting, shutdowns, nAdapter, nDSP>>
    /\ UNCHANGED <<moveVars, settingVars, channelVars>>

(***************************************************************************)
(* The host: it initialises an instance with no controller or with the     *)
(* controller an instance published in its status record, and closes it.   *)
(***************************************************************************)
Published == {None} \cup {status[j].controller : j \in Insts}

InitializeMove ==
    \E i \in Insts, ctrl \in Published, adapterOk \in BOOLEAN, idOk \in BOOLEAN :
        ini_stage(i, ctrl, adapterOk, idOk)

InitializeViewer ==
    \E i \in Insts, ctrl \in Published, adapterOk \in BOOLEAN, idOk \in BOOLEAN :
        ini_detector(i, ctrl, adapterOk, idOk)

CloseMove == \E i \in Insts : close_move(i)

CloseViewer == \E i \in Insts : close_viewer(i)

(***************************************************************************)
(* Moves of one Ready actuator: move_abs, move_rel, move_home              *)
(*                                                                         *)
(* Frequencies are integers.  The device keeps the value written to its    *)
(* frequency attribute; a write may fail (the transport raises).           *)
(***************************************************************************)
MinBound == 1       \* setting bounds/min_bound
MaxBound == 4       \* setting bounds/max_bound
MaxTarget == 5      \* move_abs targets explored: 0 .. MaxTarget
MaxDelta == 2       \* move_rel deltas explored: -MaxDelta .. MaxDelta
MaxFreq == 2010     \* moves explored keep the tracked values within -MaxFreq .. MaxFreq
Scalings == {1, 2}  \* setting scaling/scaling
Offsets == {0, 1}   \* setting scaling/offset
Targets == 0 .. MaxTarget
Deltas == (0 - MaxDelta) .. MaxDelta

\* move_home: self.move_abs(DataActuator(1e3))
HomeFreq == 1000

\* an attribute that no statement has assigned yet / that holds x
Unset == [set |-> FALSE, v |-> 0]
Val(x) == [set |-> TRUE, v |-> x]

\* self.check_bound(f): clamp to the soft bounds when they are enabled
check_bound(f) ==
    IF is_bounds
    THEN IF f > MaxBound THEN MaxBound ELSE IF f < MinBound THEN MinBound ELSE f
    ELSE f

\* self.set_position_with_scaling(f): host units -> device units
set_position_with_scaling(f) == IF use_scaling THEN f * scaling + offset ELSE f

\* self.get_position_with_scaling(f): device units -> host units
get_position_with_scaling(f) == IF use_scaling THEN (f - offset) \div scaling ELSE f

\* get_actuator_value: the position ReadPosition reports
get_actuator_value == get_position_with_scaling(frequency)

\* move_abs(f): the actuator after the call; writeOk: the device write succeeds
move_abs_result(tgt, f, writeOk) ==
    LET f1 == check_bound(f)
        f2 == set_position_with_scaling(f1)
    IN IF writeOk
       THEN \* controller.frequency = f; target_frequency = f; current_frequency = target
            [frequency |-> f2, target |-> Val(f2), current |-> Val(f2), raised |-> FALSE]
       ELSE \* the write raised: nothing after it runs
            [frequency |-> frequency, target |-> tgt, current |-> current_frequency,
             raised |-> TRUE]

\* move_rel(d): the actuator after the call
move_rel_result(d, writeOk) ==
    IF ~current_frequency.set
    THEN \* reading self.current_frequency raises AttributeError
         [frequency |-> frequency, target |-> target_frequency,
          current |-> current_frequency, raised |-> TRUE]
    ELSE LET cur == current_frequency.v
             f == check_bound(cur + d) - cur
             tgt == f + cur          \* self.target_frequency = f + current_frequency
         IN  \* self.move_abs(self.target_frequency)
             move_abs_result(Val(tgt), tgt, writeOk)

InRange(r) ==
    /\ r.frequency \in (0 - MaxFreq) .. MaxFreq
    /\ r.target.v \in (0 - MaxFreq) .. MaxFreq

Moved(r) ==
    /\ InRange(r)
    /\ frequency' = r.frequency
    /\ target_frequency' = r.target
    /\ current_frequency' = r.current
    /\ move_raised' = r.raised
    /\ UNCHANGED <<is_bounds, use_scaling, scaling, offset>>
    /\ UNCHANGED <<lifeVars, settingVars, channelVars>>

move_abs == \E f \in Targets, writeOk \in BOOLEAN :
    Moved(move_abs_result(target_frequency, f, writeOk))

move_rel == \E d \in Deltas, writeOk \in BOOLEAN :
    Moved(move_rel_result(d, writeOk))

move_home == \E writeOk \in BOOLEAN :
    Moved(move_abs_result(target_frequency, HomeFreq, writeOk))

(***************************************************************************)
(* commit_settings of one Ready actuator                                   *)
(*                                                                         *)
(* A float of the sensitivity table is a pair (mantissa, decimal exponent);*)
(* a label f"{x:.2e} {unit}" is the record of its mantissa, exponent and   *)
(* unit.  0.0 times any multiplier is 0.0 and prints as 0.00e+00.          *)
(***************************************************************************)
TableLen == 4       \* leading entries of DSP7265.SENSITIVITIES that are modelled

\* DSP7265.IMODES by index: voltage mode, current mode, low noise current mode
IModes == 0 .. 2

\* DSP7265.SENSITIVITIES[k - 1]: 0.0, 2e-9, 5e-9, 10e-9, 20e-9, 50e-9, ...
SENSITIVITIES(k) ==
    IF k = 1 THEN [mant |-> 0, exp |-> 0]
    ELSE [mant |-> <<2, 5, 1>>[((k - 2) % 3) + 1], exp |-> ((k - 1) \div 3) - 9]

\* DSP7265.SEN_MULTIPLIER[m] = 1, 1e-6, 1e-8 as a shift of the decimal exponent
SEN_MULTIPLIER(m) == <<0, -6, -8>>[m + 1]

\* s * DSP7265.SEN_MULTIPLIER[m]
Times(s, m) == IF s.mant = 0 THEN s ELSE [s EXCEPT !.exp = @ + SEN_MULTIPLIER(m)]

\* the unit commit_settings passes for mode m
UnitOf(m) == IF m = 0 THEN "V" ELSE "A"

\* the key build_dict_from_float_list makes for x: f"{x:.2e} {unit}"
Label(x, unit) == [mant |-> x.mant, exp |-> x.exp, unit |-> unit]

\* list(build_dict_from_float_list([s * SEN_MULTIPLIER[m] for s in SENSITIVITIES], unit).keys())
build_keys(m, unit) == [k \in 1 .. TableLen |-> Label(Times(SENSITIVITIES(k), m), unit)]

\* the limits the imode branch of commit_settings sets for mode m
limits_for(m) == build_keys(m, UnitOf(m))

\* the limits params declares: list(build_dict_from_float_list(SENSITIVITIES, 'V'))
initial_limits == [k \in 1 .. TableLen |-> Label(SENSITIVITIES(k), "V")]

Range(f) == {f[k] : k \in DOMAIN f}

\* build_dict_from_float_list(...)[label]: the float behind a key of mode m
\* (KeyError, here Unset, when the label is no key of that mode)
lookup(m, label) ==
    IF label \in Range(limits_for(m))
    THEN Val(Times(SENSITIVITIES(CHOOSE k \in 1 .. TableLen : limits_for(m)[k] = label), m))
    ELSE Unset

\* settings.child('sensitivity').setLimits(limits) of a list parameter: the
\* limits are replaced, and a value that is not among them is replaced by the
\* first of them
setLimits_keeps_value(limits, value) == [limits |-> limits, value |-> value]
setLimits(limits, value) ==
    [limits |-> limits,
     value |-> IF value \in Range(limits) THEN value ELSE limits[1]]

\* commit_settings(param), param 'imode' set to m by the host
commit_imode(m, writeOk) ==
    /\ imode' = m
    /\ IF writeOk
       THEN LET r == setLimits(limits_for(m), sensitivity)
            IN /\ dev_imode' = Val(m)          \* self.controller.imode = param.value()
               /\ sens_limits' = r.limits
               /\ sensitivity' = r.value
               /\ commit_raised' = FALSE
       ELSE \* the write raised: setLimits is not reached
            /\ commit_raised' = TRUE
            /\ UNCHANGED <<dev_imode, sens_limits, sensitivity>>
    /\ UNCHANGED <<coupling, dev_sensitivity, dev_coupling>>
    /\ UNCHANGED <<lifeVars, moveVars, channelVars>>

\* commit_settings(param), param 'sensitivity' set to label v by the host
commit_sensitivity(v, writeOk) ==
    /\ v \in Range(sens_limits)
    /\ sensitivity' = v
    /\ LET x == lookup(imode, v)
       IN IF x.set /\ writeOk
          THEN /\ dev_sensitivity' = x         \* self.controller.sensitivity = dict[label]
               /\ commit_raised' = FALSE
          ELSE \* KeyError, or the write raised
               /\ commit_raised' = TRUE
               /\ UNCHANGED dev_sensitivity
    /\ UNCHANGED <<imode, sens_limits, coupling, dev_imode, dev_coupling>>
    /\ UNCHANGED <<lifeVars, moveVars, channelVars>>

\* COUPLING = {"AC": 0, "DC": 1}
COUPLING(c) == IF c = "AC" THEN 0 ELSE 1

\* commit_settings(param), param 'coupling' set to c by the host
commit_coupling(c, writeOk) ==
    /\ coupling' = c
    /\ IF writeOk
       THEN /\ dev_coupling' = Val(COUPLING(c))   \* self.controller.coupling = COUPLING[..]
            /\ commit_raised' = FALSE
       ELSE /\ commit_raised' = TRUE
            /\ UNCHANGED dev_coupling
    /\ UNCHANGED <<imode, sensitivity, sens_limits, dev_imode, dev_sensitivity>>
    /\ UNCHANGED <<lifeVars, moveVars, channelVars>>

\* commit_settings(param) for a name no branch recognises: pass
commit_other ==
    /\ commit_raised' = FALSE
    /\ UNCHANGED <<imode, sensitivity, sens_limits, coupling, dev_imode,
                   dev_sensitivity, dev_coupling>>
    /\ UNCHANGED <<lifeVars, moveVars, channelVars>>

(***************************************************************************)
(* Channel groups of the viewer: ChannelGroup.addNew and removal           *)
(*                                                                         *)
(* A group's name is 'channel' followed by decimal digits; the model keeps *)
(* the digits, most significant first.                                     *)
(***************************************************************************)
MaxIndex == 11      \* addNew is explored while the new index is <= MaxIndex

RECURSIVE Digits(_)
\* the decimal digits of n >= 0
Digits(n) == IF n < 10 THEN <<n>> ELSE Append(Digits(n \div 10), n % 10)

RECURSIVE ToInt(_)
\* int(s) of a nonempty digit string
ToInt(ds) == IF Len(ds) = 1 THEN ds[1] ELSE 10 * ToInt(SubSeq(ds, 1, Len(ds) - 1)) + ds[Len(ds)]

\* f'{newindex:02.0f}': at least two digits, zero padded
Format02(n) == IF n < 10 THEN <<0, n>> ELSE Digits(n)

\* int(par.name()[len(name_prefix) + 1:]): the digits after the first one
child_index(name) == ToInt(Tail(name))

Max(S) == CHOOSE x \in S : \A y \in S : y <= x

\* newindex of addNew for the groups cs
new_index(cs) ==
    IF cs = {} THEN 0 ELSE Max({child_index(n) : n \in cs}) + 1

\* ChannelGroup.addNew: self.addChild(child) raises when the name exists
addNew ==
    LET name == Format02(new_index(children))
    IN /\ new_index(children) <= MaxIndex
       /\ IF name \in children
          THEN /\ add_raised' = TRUE
               /\ UNCHANGED children
          ELSE /\ add_raised' = FALSE
               /\ children' = children \cup {name}
       /\ UNCHANGED <<lifeVars, moveVars, settingVars>>

\* a group is removable: the host removes one of the existing groups
remove_child ==
    \E n \in children :
        /\ children' = children \ {n}
        /\ add_raised' = FALSE
        /\ UNCHANGED <<lifeVars, moveVars, settingVars>>

(***************************************************************************)
(* Specifications                                                          *)
(***************************************************************************)
\* the state after construction: ini_attributes sets self.controller = None,
\* the status record is (info "", controller None, initialized False)
LifeInit ==
    /\ plugin \in {"move", "viewer"}
    /\ multi_status \in [Insts -> {"Master", "Slave"}]
    /\ ismultiaxes \in [Insts -> BOOLEAN]
    /\ (plugin = "viewer" => ismultiaxes = [i \in Insts |-> TRUE])
    /\ controller = [i \in Insts |-> None]
    /\ status = [i \in Insts |-> [info |-> EmptyStr, controller |-> None, initialized |-> FALSE]]
    /\ id_setting = [i \in Insts |-> EmptyStr]
    /\ raised = [i \in Insts |-> FALSE]
    /\ closes = [i \in Insts |-> 0]
    /\ shutdowns = [c \in Conns |-> 0]
    /\ nAdapter = 0
    /\ nDSP = 0

\* one settled value of the life-cycle state for the other specifications
LifeIdle ==
    /\ plugin = "move"
    /\ multi_status = [i \in Insts |-> "Master"]
    /\ ismultiaxes = [i \in Insts |-> TRUE]
    /\ controller = [i \in Insts |-> None]
    /\ status = [i \in Insts |-> [info |-> EmptyStr, controller |-> None, initialized |-> FALSE]]
    /\ id_setting = [i \in Insts |-> EmptyStr]
    /\ raised = [i \in Insts |-> FALSE]
    /\ closes = [i \in Insts |-> 0]
    /\ shutdowns = [c \in Conns |-> 0]
    /\ nAdapter = 0
    /\ nDSP = 0

\* a Ready actuator that has not moved yet: the device holds some frequency,
\* target_frequency and current_frequency are not assigned
MoveInit ==
    /\ is_bounds \in BOOLEAN
    /\ use_scaling \in BOOLEAN
    /\ scaling \in Scalings
    /\ offset \in Offsets
    /\ (~use_scaling => scaling = 1 /\ offset = 0)
    /\ frequency \in {set_position_with_scaling(f) : f \in Targets}
    /\ target_frequency = Unset
    /\ current_frequency = Unset
    /\ move_raised = FALSE

MoveIdle ==
    /\ is_bounds = FALSE
    /\ use_scaling = FALSE
    /\ scaling = 1
    /\ offset = 0
    /\ frequency = 0
    /\ target_frequency = Unset
    /\ current_frequency = Unset
    /\ move_raised = FALSE

\* the settings as params declares them (each list at its first limit), and
\* a controller to which commit_settings has written nothing yet
SettingsInit ==
    /\ imode = 0
    /\ sens_limits = initial_limits
    /\ sensitivity = initial_limits[1]
    /\ coupling = "AC"
    /\ dev_imode = Unset
    /\ dev_sensitivity = Unset
    /\ dev_coupling = Unset
    /\ commit_raised = FALSE

ChannelsInit ==
    /\ children = {}
    /\ add_raised = FALSE

Init == LifeInit /\ MoveIdle /\ SettingsInit /\ ChannelsInit

Next == InitializeMove \/ InitializeViewer \/ CloseMove \/ CloseViewer

Spec == Init /\ [][Next]_vars

InitMove == LifeIdle /\ MoveInit /\ SettingsInit /\ ChannelsInit

NextMove == move_abs \/ move_rel \/ move_home

SpecMove == InitMove /\ [][NextMove]_vars

InitSettings == LifeIdle /\ MoveIdle /\ SettingsInit /\ ChannelsInit

CommitImode == \E m \in IModes, writeOk \in BOOLEAN : commit_imode(m, writeOk)

CommitSensitivity ==
    \E v \in Range(sens_limits), writeOk \in BOOLEAN : commit_sensitivity(v, writeOk)

CommitCoupling == \E c \in {"AC", "DC"}, writeOk \in BOOLEAN : commit_coupling(c, writeOk)

NextSettings == CommitImode \/ CommitSensitivity \/ CommitCoupling \/ commit_other

SpecSettings == InitSettings /\ [][NextSettings]_vars

InitChannels == LifeIdle /\ MoveIdle /\ SettingsInit /\ ChannelsInit

NextChannels == addNew \/ remove_child

SpecChannels == InitChannels /\ [][NextChannels]_vars

(***************************************************************************)
(* Properties: life cycle (Spec)                                           *)
(***************************************************************************)
\* the role setting of instance i is Slave
RoleSlave(i) == multi_status[i] = "Slave"

\* i is a secondary for its plugin: role Slave and, in the actuator, 'ismultiaxes' set
Secondary(i) == RoleSlave(i) /\ (plugin = "move" => ismultiaxes[i])

\* i is a primary: its role setting is Master, it opens its own connection
Primary(i) == multi_status[i] = "Master"

\* a call of ini_stage / ini_detector on i with controller argument ctrl
InitCall(i, ctrl, adapterOk, idOk) ==
    ini_stage(i, ctrl, adapterOk, idOk) \/ ini_detector(i, ctrl, adapterOk, idOk)

\* a call of close on i
CloseCall(i) == close_move(i) \/ close_viewer(i)

\* the call on i ends Failed and constructs neither an adapter nor a DSP7265
FailsWithoutOpening(i) ==
    /\ ~status'[i].initialized
    /\ IsError(status'[i].info)
    /\ ~raised'[i]
    /\ nAdapter' = nAdapter
    /\ nDSP' = nDSP

\* C1 as stated: initialising any instance whose role setting is Slave with
\* controller = None ends Failed and opens nothing, whatever the other
\* settings are (the actuator's 'ismultiaxes' included).
C1_SlaveRoleWithoutControllerFails ==
    [][\A i \in Insts, adapterOk \in BOOLEAN, idOk \in BOOLEAN :
          (RoleSlave(i) /\ InitCall(i, None, adapterOk, idOk)) => FailsWithoutOpening(i)]_vars

\* C1 amended: initialising with controller = None an instance whose role is
\* Slave and, in the actuator, whose 'ismultiaxes' setting is true, ends
\* Failed (initialized False, an error message in info) and constructs no
\* adapter and no DSP7265.
C1_SecondaryWithoutControllerFails ==
    [][\A i \in Insts, adapterOk \in BOOLEAN, idOk \in BOOLEAN :
          (Secondary(i) /\ InitCall(i, None, adapterOk, idOk)) => FailsWithoutOpening(i)]_vars

\* C1 witness: a secondary actuator was initialised without a controller
\* while no adapter has been constructed at all
C1_Witness ==
    \E i \in Insts :
        /\ plugin = "move" /\ Secondary(i)
        /\ status[i].info = ErrNoController
        /\ ~status[i].initialized
        /\ nAdapter = 0

\* C2: when a primary is Ready and the controller of its status record is
\* passed to the initialisation of a secondary (the device answering), the
\* secondary becomes Ready with the primary's connection and no further
\* connection is opened.
C2_SecondarySharesPrimaryConnection ==
    [][\A p \in Insts, s \in Insts :
          (/\ p # s /\ Primary(p) /\ status[p].initialized /\ Secondary(s)
           /\ InitCall(s, status[p].controller, TRUE, TRUE))
          => (/\ status'[s].initialized
              /\ controller'[s] = controller[p]
              /\ nAdapter' = nAdapter
              /\ nDSP' = nDSP)]_vars

\* what a returned status record of instance i satisfies
SoftFail(i) ==
    /\ ~raised[i]
    /\ IF status[i].initialized
       THEN controller[i] # None /\ status[i].info = device_id(controller[i])
       ELSE IsError(status[i].info) /\ status[i].controller = None

\* C3: every initialisation call returns (it never raises); on failure the
\* record has initialized False, an error message in info and no controller;
\* initialized is True only with a non-null self.controller whose id is info.
C3_InitializationIsSoftFail ==
    [][\A i \in Insts, ctrl \in Published, adapterOk \in BOOLEAN, idOk \in BOOLEAN :
          InitCall(i, ctrl, adapterOk, idOk) => SoftFail(i)']_vars

\* C3 witness: an instance that had been Ready failed a later initialisation
\* at the id query of a freshly opened connection (its record holds the error
\* and no controller), next to a Ready instance
C3_Witness ==
    \E i \in Insts, j \in Insts :
        /\ status[i].info = ErrId /\ ~status[i].initialized
        /\ status[i].controller = None /\ controller[i] # None
        /\ id_setting[i] # EmptyStr
        /\ status[j].initialized /\ status[j].info = device_id(controller[j])

\* C7: a successful initialisation of a primary constructs exactly one adapter
\* and one DSP7265, and afterwards status.info and the identification setting
\* ('info' / 'id') both hold the id of that connection.
C7_PrimaryOpensOnceAndPublishesId ==
    [][\A i \in Insts, ctrl \in Published :
          (Primary(i) /\ InitCall(i, ctrl, TRUE, TRUE))
          => (/\ nAdapter' = nAdapter + 1
              /\ nDSP' = nDSP + 1
              /\ status'[i].initialized
              /\ status'[i].info = device_id(controller'[i])
              /\ id_setting'[i] = device_id(controller'[i]))]_vars

\* C9: on a Ready instance the first close sends one shutdown request to its
\* connection and does not raise; every later close sends none and does not
\* raise.
C9_CloseOnceThenNoOp ==
    [][\A i \in Insts :
          (status[i].initialized /\ CloseCall(i))
          => (/\ ~raised'[i]
              /\ shutdowns' = IF closes[i] = 0
                              THEN [shutdowns EXCEPT ![controller[i]] = @ + 1]
                              ELSE shutdowns)]_vars

\* C10: while a primary is Ready and has not been closed itself, the
\* connection it holds has received no shutdown request (closing a secondary
\* leaves the primary's connection open).
C10_SecondaryCloseKeepsPrimaryOpen ==
    \A p \in Insts :
        (Primary(p) /\ status[p].initialized /\ closes[p] = 0)
        => shutdowns[controller[p]] = 0

(***************************************************************************)
(* Properties: moves (SpecMove)                                            *)
(***************************************************************************)
\* C4: after every move call, whether it returned or raised, the tracked
\* target frequency equals the tracked current frequency.
C4_TargetEqualsCurrent == target_frequency = current_frequency

\* what a move leaves behind: the device frequency and the tracked pair
Outcome(r) == <<r.frequency, r.target, r.current, r.raised>>

\* C5: in every Ready state, for every delta d, move_rel(d) has the outcome of
\* move_abs(clamp(c + d)), c being the position get_actuator_value reports
\* (device writes succeeding).
C5_RelativeIsAbsoluteOfClampedSum ==
    \A d \in Deltas :
        Outcome(move_rel_result(d, TRUE))
          = Outcome(move_abs_result(target_frequency,
                                    check_bound(get_actuator_value + d), TRUE))

WrittenMode == IF dev_imode.set THEN dev_imode.v ELSE 0

assigned_index(name) == ToInt(name)

\* C8: for the groups that exist, the index parsed back from each name is
\* the index the group was given, the next addNew takes
\* max(existing indexes) + 1 (0 when none exists), and the name it builds is
\* the name of no existing group.
C8_NextIndexIsFresh ==
    /\ \A n \in children : child_index(n) = assigned_index(n)
    /\ new_index(children) =
          IF children = {} THEN 0 ELSE Max({assigned_index(n) : n \in children}) + 1
    /\ Format02(new_index(children)) \notin children

=============================================================================
